---- MODULE Spec2Model ----
(***************************************************************************)
(* GoogleAnalyticsReportingToGCSOperator                                   *)
(* (src/operators/google_analytics_reporting_to_gcs_operator.py).          *)
(*                                                                         *)
(* One operator object is constructed and then executed once: execute      *)
(* normalises the two dates, fetches the report, flattens it into a        *)
(* NamedTemporaryFile and uploads that file by name.  The two external     *)
(* calls (get_analytics_report, upload) are the only points where the      *)
(* environment acts, so every action below is the code between two such    *)
(* points.                                                                 *)
(*                                                                         *)
(* A Python string whose characters matter (a date, a header name, a       *)
(* value) is the sequence of its characters' Unicode code points.          *)
(***************************************************************************)
EXTENDS Integers, Sequences, FiniteSets, TLC

VARIABLES pc, self, raised, ga_calls, gcs_calls, report, ga_file

vars == <<pc, self, raised, ga_calls, gcs_calls, report, ga_file>>

----------------------------------------------------------------------------
(* Characters and the str methods the operator uses.  The tables are those *)
(* of the Unicode database of the interpreter (version 14.0.0).            *)

\* the code point of "0" in every script of decimal digits: the characters
\* the regular expression \d matches and int() reads are z .. z + 9
DigitZeros ==
    {48, 1632, 1776, 1984, 2406, 2534, 2662, 2790, 2918, 3046,
     3174, 3302, 3430, 3558, 3664, 3792, 3872, 4160, 4240, 6112,
     6160, 6470, 6608, 6784, 6800, 6992, 7088, 7232, 7248, 42528,
     43216, 43264, 43472, 43504, 43600, 44016, 65296, 66720, 68912, 69734,
     69872, 69942, 70096, 70384, 70736, 70864, 71248, 71360, 71472, 71904,
     72016, 72784, 73040, 73120, 92768, 92864, 93008, 120782, 120792, 120802,
     120812, 120822, 123200, 123632, 125264, 130032}

\* the characters the regular expression \s matches
Whitespace ==
    (9..13) \cup (28..32) \cup {133, 160, 5760} \cup (8192..8202)
    \cup {8232, 8233, 8239, 8287, 12288}

IsDigit(c) == \E z \in DigitZeros : c >= z /\ c <= z + 9

DigitVal(c) == c - (CHOOSE z \in DigitZeros : c >= z /\ c <= z + 9)

IsDigits(s) == \A i \in 1..Len(s) : IsDigit(s[i])

\* c is one of the ASCII digits lo .. hi: the class [lo-hi] of a regular expression
InClass(c, lo, hi) == c >= 48 + lo /\ c <= 48 + hi

RECURSIVE IntOf(_)
\* int(s) for a string of decimal digits
IntOf(s) ==
    IF s = <<>> THEN 0
    ELSE 10 * IntOf(SubSeq(s, 1, Len(s) - 1)) + DigitVal(s[Len(s)])

RECURSIVE Decimal(_)
\* the decimal digits of n >= 0, without padding
Decimal(n) ==
    IF n < 10 THEN <<48 + n>>
    ELSE Decimal(n \div 10) \o <<48 + (n % 10)>>

RECURSIVE ZeroPad(_, _)
\* s padded on the left with "0" up to width w
ZeroPad(s, w) == IF Len(s) >= w THEN s ELSE ZeroPad(<<48>> \o s, w)

\* first index i >= from with s[i] = c, 0 when there is none
IndexOf(s, c, from) ==
    IF \E i \in from..Len(s) : s[i] = c
    THEN CHOOSE i \in from..Len(s) : s[i] = c /\ \A j \in from..(i - 1) : s[j] # c
    ELSE 0

\* <<first, last, step, delta>>: the characters first, first + step, ..,
\* last have the lower-case form c + delta
LowerRuns ==
    <<<<65, 90, 1, 32>>, <<192, 214, 1, 32>>, <<216, 222, 1, 32>>,
     <<256, 302, 2, 1>>, <<306, 310, 2, 1>>, <<313, 327, 2, 1>>,
     <<330, 374, 2, 1>>, <<376, 376, 1, -121>>, <<377, 381, 2, 1>>,
     <<385, 385, 1, 210>>, <<386, 388, 2, 1>>, <<390, 390, 1, 206>>,
     <<391, 391, 1, 1>>, <<393, 394, 1, 205>>, <<395, 395, 1, 1>>,
     <<398, 398, 1, 79>>, <<399, 399, 1, 202>>, <<400, 400, 1, 203>>,
     <<401, 401, 1, 1>>, <<403, 403, 1, 205>>, <<404, 404, 1, 207>>,
     <<406, 406, 1, 211>>, <<407, 407, 1, 209>>, <<408, 408, 1, 1>>,
     <<412, 412, 1, 211>>, <<413, 413, 1, 213>>, <<415, 415, 1, 214>>,
     <<416, 420, 2, 1>>, <<422, 422, 1, 218>>, <<423, 423, 1, 1>>,
     <<425, 425, 1, 218>>, <<428, 428, 1, 1>>, <<430, 430, 1, 218>>,
     <<431, 431, 1, 1>>, <<433, 434, 1, 217>>, <<435, 437, 2, 1>>,
     <<439, 439, 1, 219>>, <<440, 440, 1, 1>>, <<444, 444, 1, 1>>,
     <<452, 452, 1, 2>>, <<453, 453, 1, 1>>, <<455, 455, 1, 2>>,
     <<456, 456, 1, 1>>, <<458, 458, 1, 2>>, <<459, 475, 2, 1>>,
     <<478, 494, 2, 1>>, <<497, 497, 1, 2>>, <<498, 500, 2, 1>>,
     <<502, 502, 1, -97>>, <<503, 503, 1, -56>>, <<504, 542, 2, 1>>,
     <<544, 544, 1, -130>>, <<546, 562, 2, 1>>, <<570, 570, 1, 10795>>,
     <<571, 571, 1, 1>>, <<573, 573, 1, -163>>, <<574, 574, 1, 10792>>,
     <<577, 577, 1, 1>>, <<579, 579, 1, -195>>, <<580, 580, 1, 69>>,
     <<581, 581, 1, 71>>, <<582, 590, 2, 1>>, <<880, 882, 2, 1>>,
     <<886, 886, 1, 1>>, <<895, 895, 1, 116>>, <<902, 902, 1, 38>>,
     <<904, 906, 1, 37>>, <<908, 908, 1, 64>>, <<910, 911, 1, 63>>,
     <<913, 929, 1, 32>>, <<931, 939, 1, 32>>, <<975, 975, 1, 8>>,
     <<984, 1006, 2, 1>>, <<1012, 1012, 1, -60>>, <<1015, 1015, 1, 1>>,
     <<1017, 1017, 1, -7>>, <<1018, 1018, 1, 1>>, <<1021, 1023, 1, -130>>,
     <<1024, 1039, 1, 80>>, <<1040, 1071, 1, 32>>, <<1120, 1152, 2, 1>>,
     <<1162, 1214, 2, 1>>, <<1216, 1216, 1, 15>>, <<1217, 1229, 2, 1>>,
     <<1232, 1326, 2, 1>>, <<1329, 1366, 1, 48>>, <<4256, 4293, 1, 7264>>,
     <<4295, 4295, 1, 7264>>, <<4301, 4301, 1, 7264>>, <<5024, 5103, 1, 38864>>,
     <<5104, 5109, 1, 8>>, <<7312, 7354, 1, -3008>>, <<7357, 7359, 1, -3008>>,
     <<7680, 7828, 2, 1>>, <<7838, 7838, 1, -7615>>, <<7840, 7934, 2, 1>>,
     <<7944, 7951, 1, -8>>, <<7960, 7965, 1, -8>>, <<7976, 7983, 1, -8>>,
     <<7992, 7999, 1, -8>>, <<8008, 8013, 1, -8>>, <<8025, 8031, 2, -8>>,
     <<8040, 8047, 1, -8>>, <<8072, 8079, 1, -8>>, <<8088, 8095, 1, -8>>,
     <<8104, 8111, 1, -8>>, <<8120, 8121, 1, -8>>, <<8122, 8123, 1, -74>>,
     <<8124, 8124, 1, -9>>, <<8136, 8139, 1, -86>>, <<8140, 8140, 1, -9>>,
     <<8152, 8153, 1, -8>>, <<8154, 8155, 1, -100>>, <<8168, 8169, 1, -8>>,
     <<8170, 8171, 1, -112>>, <<8172, 8172, 1, -7>>, <<8184, 8185, 1, -128>>,
     <<8186, 8187, 1, -126>>, <<8188, 8188, 1, -9>>, <<8486, 8486, 1, -7517>>,
     <<8490, 8490, 1, -8383>>, <<8491, 8491, 1, -8262>>, <<8498, 8498, 1, 28>>,
     <<8544, 8559, 1, 16>>, <<8579, 8579, 1, 1>>, <<9398, 9423, 1, 26>>,
     <<11264, 11311, 1, 48>>, <<11360, 11360, 1, 1>>, <<11362, 11362, 1, -10743>>,
     <<11363, 11363, 1, -3814>>, <<11364, 11364, 1, -10727>>, <<11367, 11371, 2, 1>>,
     <<11373, 11373, 1, -10780>>, <<11374, 11374, 1, -10749>>, <<11375, 11375, 1, -10783>>,
     <<11376, 11376, 1, -10782>>, <<11378, 11378, 1, 1>>, <<11381, 11381, 1, 1>>,
     <<11390, 11391, 1, -10815>>, <<11392, 11490, 2, 1>>, <<11499, 11501, 2, 1>>,
     <<11506, 11506, 1, 1>>, <<42560, 42604, 2, 1>>, <<42624, 42650, 2, 1>>,
     <<42786, 42798, 2, 1>>, <<42802, 42862, 2, 1>>, <<42873, 42875, 2, 1>>,
     <<42877, 42877, 1, -35332>>, <<42878, 42886, 2, 1>>, <<42891, 42891, 1, 1>>,
     <<42893, 42893, 1, -42280>>, <<42896, 42898, 2, 1>>, <<42902, 42920, 2, 1>>,
     <<42922, 42922, 1, -42308>>, <<42923, 42923, 1, -42319>>, <<42924, 42924, 1, -42315>>,
     <<42925, 42925, 1, -42305>>, <<42926, 42926, 1, -42308>>, <<42928, 42928, 1, -42258>>,
     <<42929, 42929, 1, -42282>>, <<42930, 42930, 1, -42261>>, <<42931, 42931, 1, 928>>,
     <<42932, 42946, 2, 1>>, <<42948, 42948, 1, -48>>, <<42949, 42949, 1, -42307>>,
     <<42950, 42950, 1, -35384>>, <<42951, 42953, 2, 1>>, <<42960, 42960, 1, 1>>,
     <<42966, 42968, 2, 1>>, <<42997, 42997, 1, 1>>, <<65313, 65338, 1, 32>>,
     <<66560, 66599, 1, 40>>, <<66736, 66771, 1, 40>>, <<66928, 66938, 1, 39>>,
     <<66940, 66954, 1, 39>>, <<66956, 66962, 1, 39>>, <<66964, 66965, 1, 39>>,
     <<68736, 68786, 1, 64>>, <<71840, 71871, 1, 32>>, <<93760, 93791, 1, 32>>,
     <<125184, 125217, 1, 34>>>>

\* <<first, last>>: the cased characters that are not case-ignorable
CasedRanges ==
    <<<<65, 90>>, <<97, 122>>, <<170, 170>>, <<181, 181>>, <<186, 186>>,
     <<192, 214>>, <<216, 246>>, <<248, 442>>, <<444, 447>>, <<452, 659>>,
     <<661, 687>>, <<880, 883>>, <<886, 887>>, <<891, 893>>, <<895, 895>>,
     <<902, 902>>, <<904, 906>>, <<908, 908>>, <<910, 929>>, <<931, 1013>>,
     <<1015, 1153>>, <<1162, 1327>>, <<1329, 1366>>, <<1376, 1416>>, <<4256, 4293>>,
     <<4295, 4295>>, <<4301, 4301>>, <<4304, 4346>>, <<4349, 4351>>, <<5024, 5109>>,
     <<5112, 5117>>, <<7296, 7304>>, <<7312, 7354>>, <<7357, 7359>>, <<7424, 7467>>,
     <<7531, 7543>>, <<7545, 7578>>, <<7680, 7957>>, <<7960, 7965>>, <<7968, 8005>>,
     <<8008, 8013>>, <<8016, 8023>>, <<8025, 8025>>, <<8027, 8027>>, <<8029, 8029>>,
     <<8031, 8061>>, <<8064, 8116>>, <<8118, 8124>>, <<8126, 8126>>, <<8130, 8132>>,
     <<8134, 8140>>, <<8144, 8147>>, <<8150, 8155>>, <<8160, 8172>>, <<8178, 8180>>,
     <<8182, 8188>>, <<8450, 8450>>, <<8455, 8455>>, <<8458, 8467>>, <<8469, 8469>>,
     <<8473, 8477>>, <<8484, 8484>>, <<8486, 8486>>, <<8488, 8488>>, <<8490, 8493>>,
     <<8495, 8500>>, <<8505, 8505>>, <<8508, 8511>>, <<8517, 8521>>, <<8526, 8526>>,
     <<8544, 8575>>, <<8579, 8580>>, <<9398, 9449>>, <<11264, 11387>>, <<11390, 11492>>,
     <<11499, 11502>>, <<11506, 11507>>, <<11520, 11557>>, <<11559, 11559>>, <<11565, 11565>>,
     <<42560, 42605>>, <<42624, 42651>>, <<42786, 42863>>, <<42865, 42887>>, <<42891, 42894>>,
     <<42896, 42954>>, <<42960, 42961>>, <<42963, 42963>>, <<42965, 42969>>, <<42997, 42998>>,
     <<43002, 43002>>, <<43824, 43866>>, <<43872, 43880>>, <<43888, 43967>>, <<64256, 64262>>,
     <<64275, 64279>>, <<65313, 65338>>, <<65345, 65370>>, <<66560, 66639>>, <<66736, 66771>>,
     <<66776, 66811>>, <<66928, 66938>>, <<66940, 66954>>, <<66956, 66962>>, <<66964, 66965>>,
     <<66967, 66977>>, <<66979, 66993>>, <<66995, 67001>>, <<67003, 67004>>, <<68736, 68786>>,
     <<68800, 68850>>, <<71840, 71903>>, <<93760, 93823>>, <<119808, 119892>>, <<119894, 119964>>,
     <<119966, 119967>>, <<119970, 119970>>, <<119973, 119974>>, <<119977, 119980>>, <<119982, 119993>>,
     <<119995, 119995>>, <<119997, 120003>>, <<120005, 120069>>, <<120071, 120074>>, <<120077, 120084>>,
     <<120086, 120092>>, <<120094, 120121>>, <<120123, 120126>>, <<120128, 120132>>, <<120134, 120134>>,
     <<120138, 120144>>, <<120146, 120485>>, <<120488, 120512>>, <<120514, 120538>>, <<120540, 120570>>,
     <<120572, 120596>>, <<120598, 120628>>, <<120630, 120654>>, <<120656, 120686>>, <<120688, 120712>>,
     <<120714, 120744>>, <<120746, 120770>>, <<120772, 120779>>, <<122624, 122633>>, <<122635, 122654>>,
     <<125184, 125251>>, <<127280, 127305>>, <<127312, 127337>>, <<127344, 127369>>>>

\* <<first, last>>: the case-ignorable characters
CaseIgnorableRanges ==
    <<<<39, 39>>, <<46, 46>>, <<58, 58>>, <<94, 94>>, <<96, 96>>,
     <<168, 168>>, <<173, 173>>, <<175, 175>>, <<180, 180>>, <<183, 184>>,
     <<688, 879>>, <<884, 885>>, <<890, 890>>, <<900, 901>>, <<903, 903>>,
     <<1155, 1161>>, <<1369, 1369>>, <<1375, 1375>>, <<1425, 1469>>, <<1471, 1471>>,
     <<1473, 1474>>, <<1476, 1477>>, <<1479, 1479>>, <<1524, 1524>>, <<1536, 1541>>,
     <<1552, 1562>>, <<1564, 1564>>, <<1600, 1600>>, <<1611, 1631>>, <<1648, 1648>>,
     <<1750, 1757>>, <<1759, 1768>>, <<1770, 1773>>, <<1807, 1807>>, <<1809, 1809>>,
     <<1840, 1866>>, <<1958, 1968>>, <<2027, 2037>>, <<2042, 2042>>, <<2045, 2045>>,
     <<2070, 2093>>, <<2137, 2139>>, <<2184, 2184>>, <<2192, 2193>>, <<2200, 2207>>,
     <<2249, 2306>>, <<2362, 2362>>, <<2364, 2364>>, <<2369, 2376>>, <<2381, 2381>>,
     <<2385, 2391>>, <<2402, 2403>>, <<2417, 2417>>, <<2433, 2433>>, <<2492, 2492>>,
     <<2497, 2500>>, <<2509, 2509>>, <<2530, 2531>>, <<2558, 2558>>, <<2561, 2562>>,
     <<2620, 2620>>, <<2625, 2626>>, <<2631, 2632>>, <<2635, 2637>>, <<2641, 2641>>,
     <<2672, 2673>>, <<2677, 2677>>, <<2689, 2690>>, <<2748, 2748>>, <<2753, 2757>>,
     <<2759, 2760>>, <<2765, 2765>>, <<2786, 2787>>, <<2810, 2815>>, <<2817, 2817>>,
     <<2876, 2876>>, <<2879, 2879>>, <<2881, 2884>>, <<2893, 2893>>, <<2901, 2902>>,
     <<2914, 2915>>, <<2946, 2946>>, <<3008, 3008>>, <<3021, 3021>>, <<3072, 3072>>,
     <<3076, 3076>>, <<3132, 3132>>, <<3134, 3136>>, <<3142, 3144>>, <<3146, 3149>>,
     <<3157, 3158>>, <<3170, 3171>>, <<3201, 3201>>, <<3260, 3260>>, <<3263, 3263>>,
     <<3270, 3270>>, <<3276, 3277>>, <<3298, 3299>>, <<3328, 3329>>, <<3387, 3388>>,
     <<3393, 3396>>, <<3405, 3405>>, <<3426, 3427>>, <<3457, 3457>>, <<3530, 3530>>,
     <<3538, 3540>>, <<3542, 3542>>, <<3633, 3633>>, <<3636, 3642>>, <<3654, 3662>>,
     <<3761, 3761>>, <<3764, 3772>>, <<3782, 3782>>, <<3784, 3789>>, <<3864, 3865>>,
     <<3893, 3893>>, <<3895, 3895>>, <<3897, 3897>>, <<3953, 3966>>, <<3968, 3972>>,
     <<3974, 3975>>, <<3981, 3991>>, <<3993, 4028>>, <<4038, 4038>>, <<4141, 4144>>,
     <<4146, 4151>>, <<4153, 4154>>, <<4157, 4158>>, <<4184, 4185>>, <<4190, 4192>>,
     <<4209, 4212>>, <<4226, 4226>>, <<4229, 4230>>, <<4237, 4237>>, <<4253, 4253>>,
     <<4348, 4348>>, <<4957, 4959>>, <<5906, 5908>>, <<5938, 5939>>, <<5970, 5971>>,
     <<6002, 6003>>, <<6068, 6069>>, <<6071, 6077>>, <<6086, 6086>>, <<6089, 6099>>,
     <<6103, 6103>>, <<6109, 6109>>, <<6155, 6159>>, <<6211, 6211>>, <<6277, 6278>>,
     <<6313, 6313>>, <<6432, 6434>>, <<6439, 6440>>, <<6450, 6450>>, <<6457, 6459>>,
     <<6679, 6680>>, <<6683, 6683>>, <<6742, 6742>>, <<6744, 6750>>, <<6752, 6752>>,
     <<6754, 6754>>, <<6757, 6764>>, <<6771, 6780>>, <<6783, 6783>>, <<6823, 6823>>,
     <<6832, 6862>>, <<6912, 6915>>, <<6964, 6964>>, <<6966, 6970>>, <<6972, 6972>>,
     <<6978, 6978>>, <<7019, 7027>>, <<7040, 7041>>, <<7074, 7077>>, <<7080, 7081>>,
     <<7083, 7085>>, <<7142, 7142>>, <<7144, 7145>>, <<7149, 7149>>, <<7151, 7153>>,
     <<7212, 7219>>, <<7222, 7223>>, <<7288, 7293>>, <<7376, 7378>>, <<7380, 7392>>,
     <<7394, 7400>>, <<7405, 7405>>, <<7412, 7412>>, <<7416, 7417>>, <<7468, 7530>>,
     <<7544, 7544>>, <<7579, 7679>>, <<8125, 8125>>, <<8127, 8129>>, <<8141, 8143>>,
     <<8157, 8159>>, <<8173, 8175>>, <<8189, 8190>>, <<8203, 8207>>, <<8216, 8217>>,
     <<8228, 8228>>, <<8231, 8231>>, <<8234, 8238>>, <<8288, 8292>>, <<8294, 8303>>,
     <<8305, 8305>>, <<8319, 8319>>, <<8336, 8348>>, <<8400, 8432>>, <<11388, 11389>>,
     <<11503, 11505>>, <<11631, 11631>>, <<11647, 11647>>, <<11744, 11775>>, <<11823, 11823>>,
     <<12293, 12293>>, <<12330, 12333>>, <<12337, 12341>>, <<12347, 12347>>, <<12441, 12446>>,
     <<12540, 12542>>, <<40981, 40981>>, <<42232, 42237>>, <<42508, 42508>>, <<42607, 42610>>,
     <<42612, 42621>>, <<42623, 42623>>, <<42652, 42655>>, <<42736, 42737>>, <<42752, 42785>>,
     <<42864, 42864>>, <<42888, 42890>>, <<42994, 42996>>, <<43000, 43001>>, <<43010, 43010>>,
     <<43014, 43014>>, <<43019, 43019>>, <<43045, 43046>>, <<43052, 43052>>, <<43204, 43205>>,
     <<43232, 43249>>, <<43263, 43263>>, <<43302, 43309>>, <<43335, 43345>>, <<43392, 43394>>,
     <<43443, 43443>>, <<43446, 43449>>, <<43452, 43453>>, <<43471, 43471>>, <<43493, 43494>>,
     <<43561, 43566>>, <<43569, 43570>>, <<43573, 43574>>, <<43587, 43587>>, <<43596, 43596>>,
     <<43632, 43632>>, <<43644, 43644>>, <<43696, 43696>>, <<43698, 43700>>, <<43703, 43704>>,
     <<43710, 43711>>, <<43713, 43713>>, <<43741, 43741>>, <<43756, 43757>>, <<43763, 43764>>,
     <<43766, 43766>>, <<43867, 43871>>, <<43881, 43883>>, <<44005, 44005>>, <<44008, 44008>>,
     <<44013, 44013>>, <<64286, 64286>>, <<64434, 64450>>, <<65024, 65039>>, <<65043, 65043>>,
     <<65056, 65071>>, <<65106, 65106>>, <<65109, 65109>>, <<65279, 65279>>, <<65287, 65287>>,
     <<65294, 65294>>, <<65306, 65306>>, <<65342, 65342>>, <<65344, 65344>>, <<65392, 65392>>,
     <<65438, 65439>>, <<65507, 65507>>, <<65529, 65531>>, <<66045, 66045>>, <<66272, 66272>>,
     <<66422, 66426>>, <<67456, 67461>>, <<67463, 67504>>, <<67506, 67514>>, <<68097, 68099>>,
     <<68101, 68102>>, <<68108, 68111>>, <<68152, 68154>>, <<68159, 68159>>, <<68325, 68326>>,
     <<68900, 68903>>, <<69291, 69292>>, <<69446, 69456>>, <<69506, 69509>>, <<69633, 69633>>,
     <<69688, 69702>>, <<69744, 69744>>, <<69747, 69748>>, <<69759, 69761>>, <<69811, 69814>>,
     <<69817, 69818>>, <<69821, 69821>>, <<69826, 69826>>, <<69837, 69837>>, <<69888, 69890>>,
     <<69927, 69931>>, <<69933, 69940>>, <<70003, 70003>>, <<70016, 70017>>, <<70070, 70078>>,
     <<70089, 70092>>, <<70095, 70095>>, <<70191, 70193>>, <<70196, 70196>>, <<70198, 70199>>,
     <<70206, 70206>>, <<70367, 70367>>, <<70371, 70378>>, <<70400, 70401>>, <<70459, 70460>>,
     <<70464, 70464>>, <<70502, 70508>>, <<70512, 70516>>, <<70712, 70719>>, <<70722, 70724>>,
     <<70726, 70726>>, <<70750, 70750>>, <<70835, 70840>>, <<70842, 70842>>, <<70847, 70848>>,
     <<70850, 70851>>, <<71090, 71093>>, <<71100, 71101>>, <<71103, 71104>>, <<71132, 71133>>,
     <<71219, 71226>>, <<71229, 71229>>, <<71231, 71232>>, <<71339, 71339>>, <<71341, 71341>>,
     <<71344, 71349>>, <<71351, 71351>>, <<71453, 71455>>, <<71458, 71461>>, <<71463, 71467>>,
     <<71727, 71735>>, <<71737, 71738>>, <<71995, 71996>>, <<71998, 71998>>, <<72003, 72003>>,
     <<72148, 72151>>, <<72154, 72155>>, <<72160, 72160>>, <<72193, 72202>>, <<72243, 72248>>,
     <<72251, 72254>>, <<72263, 72263>>, <<72273, 72278>>, <<72281, 72283>>, <<72330, 72342>>,
     <<72344, 72345>>, <<72752, 72758>>, <<72760, 72765>>, <<72767, 72767>>, <<72850, 72871>>,
     <<72874, 72880>>, <<72882, 72883>>, <<72885, 72886>>, <<73009, 73014>>, <<73018, 73018>>,
     <<73020, 73021>>, <<73023, 73029>>, <<73031, 73031>>, <<73104, 73105>>, <<73109, 73109>>,
     <<73111, 73111>>, <<73459, 73460>>, <<78896, 78904>>, <<92912, 92916>>, <<92976, 92982>>,
     <<92992, 92995>>, <<94031, 94031>>, <<94095, 94111>>, <<94176, 94177>>, <<94179, 94180>>,
     <<110576, 110579>>, <<110581, 110587>>, <<110589, 110590>>, <<113821, 113822>>, <<113824, 113827>>,
     <<118528, 118573>>, <<118576, 118598>>, <<119143, 119145>>, <<119155, 119170>>, <<119173, 119179>>,
     <<119210, 119213>>, <<119362, 119364>>, <<121344, 121398>>, <<121403, 121452>>, <<121461, 121461>>,
     <<121476, 121476>>, <<121499, 121503>>, <<121505, 121519>>, <<122880, 122886>>, <<122888, 122904>>,
     <<122907, 122913>>, <<122915, 122916>>, <<122918, 122922>>, <<123184, 123197>>, <<123566, 123566>>,
     <<123628, 123631>>, <<125136, 125142>>, <<125252, 125259>>, <<127995, 127999>>, <<917505, 917505>>,
     <<917536, 917631>>, <<917760, 917999>>>>

InRanges(c, ranges) ==
    \E k \in 1..Len(ranges) : c >= ranges[k][1] /\ c <= ranges[k][2]

InRun(c, run) == c >= run[1] /\ c <= run[2] /\ (c - run[1]) % run[3] = 0

\* str.lower() of one character outside any context: of the ASCII
\* characters only A-Z change, U+0130 becomes two characters, every other
\* character one
LowerChar(c) ==
    IF c < 128 THEN (IF c >= 65 /\ c <= 90 THEN <<c + 32>> ELSE <<c>>)
    ELSE IF c = 304 THEN <<105, 775>>
    ELSE IF \E k \in 1..Len(LowerRuns) : InRun(c, LowerRuns[k])
    THEN <<c + LowerRuns[CHOOSE k \in 1..Len(LowerRuns) : InRun(c, LowerRuns[k])][4]>>
    ELSE <<c>>

\* the last index j < i of s with a character that is not case-ignorable, 0
\* when there is none
LastBefore(s, i) ==
    IF \E j \in 1..(i - 1) : ~InRanges(s[j], CaseIgnorableRanges)
    THEN CHOOSE j \in 1..(i - 1) :
            /\ ~InRanges(s[j], CaseIgnorableRanges)
            /\ \A q \in (j + 1)..(i - 1) : InRanges(s[q], CaseIgnorableRanges)
    ELSE 0

\* the first index j > i of s with a character that is not case-ignorable, 0
\* when there is none
FirstAfter(s, i) ==
    IF \E j \in (i + 1)..Len(s) : ~InRanges(s[j], CaseIgnorableRanges)
    THEN CHOOSE j \in (i + 1)..Len(s) :
            /\ ~InRanges(s[j], CaseIgnorableRanges)
            /\ \A q \in (i + 1)..(j - 1) : InRanges(s[q], CaseIgnorableRanges)
    ELSE 0

\* the capital sigma at s[i] ends a word: a cased character before it and
\* none after it, case-ignorable characters skipped on both sides
FinalSigma(s, i) ==
    /\ LastBefore(s, i) # 0
    /\ InRanges(s[LastBefore(s, i)], CasedRanges)
    /\ (FirstAfter(s, i) = 0 \/ ~InRanges(s[FirstAfter(s, i)], CasedRanges))

\* the lower-case form of s[i] within s
LowerAt(s, i) ==
    IF s[i] = 931 THEN (IF FinalSigma(s, i) THEN <<962>> ELSE <<963>>)
    ELSE LowerChar(s[i])

RECURSIVE LowerRange(_, _, _)
\* the lower-case forms of s[lo .. hi], concatenated
LowerRange(s, lo, hi) ==
    IF lo > hi THEN <<>>
    ELSE IF lo = hi THEN LowerAt(s, lo)
    ELSE LowerRange(s, lo, (lo + hi) \div 2) \o LowerRange(s, ((lo + hi) \div 2) + 1, hi)

\* str.lower()
StrLower(s) == LowerRange(s, 1, Len(s))

\* s starts with 'ga:'
StartsWithGa(s) == Len(s) >= 3 /\ s[1] = 103 /\ s[2] = 97 /\ s[3] = 58

RECURSIVE StrReplaceGa(_)
\* s.replace('ga:', ''): every non-overlapping occurrence, scanning from the left
StrReplaceGa(s) ==
    IF s = <<>> THEN <<>>
    ELSE IF StartsWithGa(s) THEN StrReplaceGa(SubSeq(s, 4, Len(s)))
    ELSE <<s[1]>> \o StrReplaceGa(Tail(s))

----------------------------------------------------------------------------
(* datetime.strptime(s, '%Y-%m-%d %H:%M:%S') and .strftime('%Y-%m-%d') *)

IsLeap(y) == (y % 4 = 0 /\ y % 100 # 0) \/ y % 400 = 0

DaysInMonth(y, m) ==
    IF m = 2 THEN (IF IsLeap(y) THEN 29 ELSE 28)
    ELSE IF m \in {4, 6, 9, 11} THEN 30 ELSE 31

\* %Y: \d\d\d\d
YearOk(f) == Len(f) = 4 /\ IsDigits(f)

\* %m: 1[0-2]|0[1-9]|[1-9]
MonthOk(f) ==
    \/ Len(f) = 2 /\ f[1] = 49 /\ InClass(f[2], 0, 2)
    \/ Len(f) = 2 /\ f[1] = 48 /\ InClass(f[2], 1, 9)
    \/ Len(f) = 1 /\ InClass(f[1], 1, 9)

\* %d: 3[0-1]|[1-2]\d|0[1-9]|[1-9]| [1-9]
DayOk(f) ==
    \/ Len(f) = 2 /\ f[1] = 51 /\ InClass(f[2], 0, 1)
    \/ Len(f) = 2 /\ InClass(f[1], 1, 2) /\ IsDigit(f[2])
    \/ Len(f) = 2 /\ f[1] = 48 /\ InClass(f[2], 1, 9)
    \/ Len(f) = 1 /\ InClass(f[1], 1, 9)
    \/ Len(f) = 2 /\ f[1] = 32 /\ InClass(f[2], 1, 9)

\* %H: 2[0-3]|[0-1]\d|\d
HourOk(f) ==
    \/ Len(f) = 2 /\ f[1] = 50 /\ InClass(f[2], 0, 3)
    \/ Len(f) = 2 /\ InClass(f[1], 0, 1) /\ IsDigit(f[2])
    \/ Len(f) = 1 /\ IsDigit(f[1])

\* %M: [0-5]\d|\d
MinuteOk(f) ==
    \/ Len(f) = 2 /\ InClass(f[1], 0, 5) /\ IsDigit(f[2])
    \/ Len(f) = 1 /\ IsDigit(f[1])

\* %S: 6[0-1]|[0-5]\d|\d
SecondOk(f) ==
    \/ Len(f) = 2 /\ f[1] = 54 /\ InClass(f[2], 0, 1)
    \/ Len(f) = 2 /\ InClass(f[1], 0, 5) /\ IsDigit(f[2])
    \/ Len(f) = 1 /\ IsDigit(f[1])

\* int() of the day's text, which may start with a space
DayText(f) == IF Len(f) = 2 /\ f[1] = 32 THEN <<f[2]>> ELSE f

RECURSIVE TrailingDigits(_)
\* length of the longest run of digits that ends s
TrailingDigits(s) ==
    IF s = <<>> \/ ~IsDigit(s[Len(s)]) THEN 0
    ELSE 1 + TrailingDigits(SubSeq(s, 1, Len(s) - 1))

RECURSIVE TrailingSpace(_)
\* length of the longest run of whitespace that ends s
TrailingSpace(s) ==
    IF s = <<>> \/ s[Len(s)] \notin Whitespace THEN 0
    ELSE 1 + TrailingSpace(SubSeq(s, 1, Len(s) - 1))

NoDate == [ok |-> FALSE, year |-> 0, month |-> 0, day |-> 0]

\* The parsed date, or NoDate where strptime raises ValueError.  The fields
\* are separated by the first two "-" and, after them, the first two ":";
\* the text between the second "-" and the first ":" is day, whitespace
\* (the format's space, \s+), hour: the hour is the digits that end it.
Strptime(s) ==
    LET d1 == IndexOf(s, 45, 1)
        d2 == IF d1 = 0 THEN 0 ELSE IndexOf(s, 45, d1 + 1)
        c1 == IF d2 = 0 THEN 0 ELSE IndexOf(s, 58, d2 + 1)
        c2 == IF c1 = 0 THEN 0 ELSE IndexOf(s, 58, c1 + 1)
    IN  IF c2 = 0 THEN NoDate
        ELSE
        LET Y   == SubSeq(s, 1, d1 - 1)
            m   == SubSeq(s, d1 + 1, d2 - 1)
            mid == SubSeq(s, d2 + 1, c1 - 1)
            nH  == TrailingDigits(mid)
            H   == SubSeq(mid, Len(mid) - nH + 1, Len(mid))
            dws == SubSeq(mid, 1, Len(mid) - nH)
            nW  == TrailingSpace(dws)
            \* " 5" is a day of its own when nothing but whitespace follows it
            dRaw == SubSeq(dws, 1, Len(dws) - nW)
            d   == DayText(dRaw)
            M   == SubSeq(s, c1 + 1, c2 - 1)
            S   == SubSeq(s, c2 + 1, Len(s))
        IN  IF /\ YearOk(Y)
               /\ MonthOk(m)
               /\ nW >= 1
               /\ DayOk(dRaw)
               /\ HourOk(H)
               /\ MinuteOk(M)
               /\ SecondOk(S)
               \* datetime(...) itself: ValueError outside these ranges
               /\ IntOf(Y) >= 1
               /\ IntOf(S) <= 59
               /\ IntOf(d) <= DaysInMonth(IntOf(Y), IntOf(m))
            THEN [ok |-> TRUE, year |-> IntOf(Y), month |-> IntOf(m), day |-> IntOf(d)]
            ELSE NoDate

\* The results strftime('%Y-%m-%d') can give: month and day are always two
\* digits; %Y of a year below 1000 is zero-padded to four digits by some C
\* libraries and interpreter versions and left unpadded by others.
Strftime(dt) ==
    LET tail == <<45>> \o ZeroPad(Decimal(dt.month), 2)
                \o <<45>> \o ZeroPad(Decimal(dt.day), 2)
    IN  {Decimal(dt.year) \o tail, ZeroPad(Decimal(dt.year), 4) \o tail}

\* lines 93-96 (and 97-100): the values the formatted date can take
FormatDate(s) ==
    LET dt == Strptime(s)
    IN  IF dt.ok THEN Strftime(dt) ELSE {s}

----------------------------------------------------------------------------
(* The strings the inputs are built from *)

\* '2021-05-01 10:00:00'
S_DateTime == <<50, 48, 50, 49, 45, 48, 53, 45, 48, 49, 32, 49, 48, 58, 48, 48, 58, 48, 48>>

\* '2021-05-01'
S_DateOnly == <<50, 48, 50, 49, 45, 48, 53, 45, 48, 49>>

\* '2021-5-1 3:4:5'
S_Lenient == <<50, 48, 50, 49, 45, 53, 45, 49, 32, 51, 58, 52, 58, 53>>

\* '2021-13-01 00:00:00'
S_BadMonth == <<50, 48, 50, 49, 45, 49, 51, 45, 48, 49, 32, 48, 48, 58, 48, 48, 58, 48, 48>>

\* '2021-02-29 00:00:00'
S_BadDay == <<50, 48, 50, 49, 45, 48, 50, 45, 50, 57, 32, 48, 48, 58, 48, 48, 58, 48, 48>>

\* '2020-02-29 23:59:59'
S_LeapDay == <<50, 48, 50, 48, 45, 48, 50, 45, 50, 57, 32, 50, 51, 58, 53, 57, 58, 53, 57>>

\* '0999-01-02 03:04:05'
S_Year999 == <<48, 57, 57, 57, 45, 48, 49, 45, 48, 50, 32, 48, 51, 58, 48, 52, 58, 48, 53>>

\* '2021-05-01T10:00:00'
S_IsoT == <<50, 48, 50, 49, 45, 48, 53, 45, 48, 49, 84, 49, 48, 58, 48, 48, 58, 48, 48>>

\* '2021-05-01\r10:00:00'
S_CrSeparated == <<50, 48, 50, 49, 45, 48, 53, 45, 48, 49, 13, 49, 48, 58, 48, 48, 58, 48, 48>>

\* '\uff12\uff10\uff12\uff11-05-01 10:00:00'
S_FullwidthYear == <<65298, 65296, 65298, 65297, 45, 48, 53, 45, 48, 49, 32, 49, 48, 58, 48, 48, 58, 48, 48>>

\* '123'
View123 == <<49, 50, 51>>

\* '456'
View456 == <<52, 53, 54>>

\* 'ga:country'
N_country == <<103, 97, 58, 99, 111, 117, 110, 116, 114, 121>>

\* 'ga:pagePath'
N_pagePath == <<103, 97, 58, 112, 97, 103, 101, 80, 97, 116, 104>>

\* 'ga:viewId'
N_viewId == <<103, 97, 58, 118, 105, 101, 119, 73, 100>>

\* 'ga:sessions'
N_sessions == <<103, 97, 58, 115, 101, 115, 115, 105, 111, 110, 115>>

\* 'ga:bounceRate'
N_bounceRate == <<103, 97, 58, 98, 111, 117, 110, 99, 101, 82, 97, 116, 101>>

\* 'ga:COUNTRY'
N_COUNTRY == <<103, 97, 58, 67, 79, 85, 78, 84, 82, 89>>

\* 'ga:timestamp'
N_timestamp == <<103, 97, 58, 116, 105, 109, 101, 115, 116, 97, 109, 112>>

\* 'viewid'
K_viewid == <<118, 105, 101, 119, 105, 100>>

\* 'timestamp'
K_timestamp == <<116, 105, 109, 101, 115, 116, 97, 109, 112>>

\* 'country'
K_country == <<99, 111, 117, 110, 116, 114, 121>>

\* 'pagepath'
K_pagepath == <<112, 97, 103, 101, 112, 97, 116, 104>>

\* 'sessions'
K_sessions == <<115, 101, 115, 115, 105, 111, 110, 115>>

\* 'US'
V_US == <<85, 83>>

\* '42'
V_42 == <<52, 50>>

----------------------------------------------------------------------------
(* Bounds of the inputs *)

\* rows of a report
MaxRows == 2

\* metric value-groups of a row
MaxGroups == 2

\* values a row may carry beyond the number of headers
MaxExtra == 1

\* dimension headers and metric headers of a column header
MaxHeaders == 2

----------------------------------------------------------------------------
(* Constructor arguments *)

\* line 84
MaxPageSize == 10000

\* line 55
DefaultPageSize == 1000

PyBool(b) == [type |-> "bool", repr |-> IF b THEN "True" ELSE "False"]

PageSizeValues == {DefaultPageSize, MaxPageSize, MaxPageSize + 1}

IncludeEmptyRowsValues ==
    {PyBool(TRUE), PyBool(FALSE),
     [type |-> "int", repr |-> "1"],
     [type |-> "str", repr |-> "true"],
     [type |-> "NoneType", repr |-> "None"]}

SinceValues ==
    {S_DateTime, S_DateOnly, S_Lenient, S_BadMonth, S_BadDay, S_LeapDay,
     S_Year999, S_IsoT, S_CrSeparated, S_FullwidthYear}

UntilValues == {S_DateTime, S_DateOnly, S_BadDay, S_Year999}

ViewIds == {View123, View456}

\* the keyword arguments of __init__ that execute reads
Args ==
    [view_id : ViewIds, since : SinceValues, until : UntilValues,
     page_size : PageSizeValues, include_empty_rows : IncludeEmptyRowsValues]

\* the arguments every report shape is tried with
BaseArgs ==
    [view_id |-> View123, since |-> S_DateTime, until |-> S_DateOnly,
     page_size |-> DefaultPageSize, include_empty_rows |-> PyBool(TRUE)]

----------------------------------------------------------------------------
(* Reports the analytics client can return *)

DimensionNames == {N_country, N_pagePath, N_viewId}

\* ga:COUNTRY has the key of the dimension ga:country
MetricEntries ==
    {[name |-> N_sessions, type |-> "INTEGER"],
     [name |-> N_COUNTRY, type |-> "PERCENT"],
     [name |-> N_timestamp, type |-> "DURATION"]}

SeqsUpTo(S, n) == UNION {[1..k -> S] : k \in 0..n}

ColumnHeader(dims, entries) ==
    [dimensions |-> dims, metricHeader |-> [metricHeaderEntries |-> entries]]

\* the value at position i of row r's dimensions (g = 0) or of its g-th group
CellValue(r, g, i) ==
    <<(IF g = 0 THEN 100 ELSE 109), 48 + r, 48 + g, 48 + i>>

\* a row with nd dimension values and one group of groups[g] values for each g
Row(r, shape) ==
    [dimensions |-> [i \in 1..shape.nd |-> CellValue(r, 0, i)],
     metrics |-> [g \in 1..Len(shape.groups) |->
                    [values |-> [j \in 1..shape.groups[g] |-> CellValue(r, g, j)]]]]

MakeReport(columnHeader, shapes) ==
    [columnHeader |-> columnHeader,
     data |-> [rows |-> [r \in 1..Len(shapes) |-> Row(r, shapes[r])]]]

\* the row shapes a header of nd dimensions and nm metrics is tried with
RowShapes(nd, nm) ==
    [nd : 0..(nd + MaxExtra), groups : SeqsUpTo(0..(nm + MaxExtra), MaxGroups)]

AlignedShape(nd, nm, ngroups) == [nd |-> nd, groups |-> [g \in 1..ngroups |-> nm]]

\* up to MaxRows rows, one of them of any shape, the others with as many
\* values as headers and one group
RaggedShapeSeqs(nd, nm) ==
    {<<>>} \cup
    {[r \in 1..n |-> IF r = k THEN s ELSE AlignedShape(nd, nm, 1)] :
        <<n, k, s>> \in {t \in (1..MaxRows) \X (1..MaxRows) \X RowShapes(nd, nm) : t[2] <= t[1]}}

\* up to MaxRows rows, each with as many values as headers and any number of groups
FanOutShapeSeqs(nd, nm) ==
    UNION {[1..n -> {AlignedShape(nd, nm, g) : g \in 0..MaxGroups}] : n \in 0..MaxRows}

\* two groups in one row, and a full row followed by one a value short everywhere
HeaderShapeSeqs(nd, nm) ==
    {<<AlignedShape(nd, nm, 2)>>,
     <<AlignedShape(nd, nm, 1),
       [nd |-> IF nd > 0 THEN nd - 1 ELSE 0,
        groups |-> <<(IF nm > 0 THEN nm - 1 ELSE 0), nm>>]>>}

TwoByTwoHeader ==
    ColumnHeader(<<N_country, N_pagePath>>,
                 <<[name |-> N_sessions, type |-> "INTEGER"],
                   [name |-> N_bounceRate, type |-> "PERCENT"]>>)

\* every report shape under one header of two dimensions and two metrics
RowFamily ==
    {MakeReport(TwoByTwoHeader, shapes) :
        shapes \in RaggedShapeSeqs(2, 2) \cup FanOutShapeSeqs(2, 2)}

\* every header over the names, each with a few aligned and short rows
HeaderFamily ==
    UNION {{MakeReport(ColumnHeader(dims, entries), shapes) :
               shapes \in HeaderShapeSeqs(Len(dims), Len(entries))} :
           <<dims, entries>> \in SeqsUpTo(DimensionNames, MaxHeaders)
                                  \X SeqsUpTo(MetricEntries, MaxHeaders)}

\* one dimension ga:country, one metric ga:sessions, one row US / 42
ScenarioReport ==
    [columnHeader |-> ColumnHeader(<<N_country>>, <<[name |-> N_sessions, type |-> "INTEGER"]>>),
     data |-> [rows |-> <<[dimensions |-> <<V_US>>, metrics |-> <<[values |-> <<V_42>>]>>]>>]]

EmptyReport == [columnHeader |-> ColumnHeader(<<>>, <<>>), data |-> [rows |-> <<>>]]

\* Lengths of a page path with which a record of BaseArgs is 90, 4096, 5000
\* and 9000 bytes long, its newline included.
LongValueLengths == {20, 4026, 4930, 8930}

\* 'xxx...x', n characters
LongValue(n) == [i \in 1..n |-> 120]

\* rows of one page path of the given lengths, each with one empty group
LongReport(lengths) ==
    [columnHeader |-> ColumnHeader(<<N_pagePath>>, <<>>),
     data |-> [rows |-> [r \in 1..Len(lengths) |->
                            [dimensions |-> <<LongValue(lengths[r])>>,
                             metrics |-> <<[values |-> <<>>]>>]]]]

\* reports whose records fill the staging file's buffers
LongFamily == {LongReport(lengths) : lengths \in SeqsUpTo(LongValueLengths, MaxRows)}

\* The reports tried with the arguments a: every shape with BaseArgs, the
\* scenario and the empty report with all the others.
ReportsFor(a) ==
    IF a = BaseArgs
    THEN RowFamily \cup HeaderFamily \cup LongFamily \cup {ScenarioReport, EmptyReport}
    ELSE {ScenarioReport, EmptyReport}

----------------------------------------------------------------------------
(* dict: a function from keys to values *)

EmptyDict == [k \in {} |-> <<>>]

\* d[k] = v
DictSet(d, k, v) == [x \in (DOMAIN d) \cup {k} |-> IF x = k THEN v ELSE d[x]]

\* d.update(e)
DictUpdate(d, e) ==
    [x \in (DOMAIN d) \cup (DOMAIN e) |-> IF x \in DOMAIN e THEN e[x] ELSE d[x]]

----------------------------------------------------------------------------
(* json.dumps(data): the length of the text.  The text is ASCII           *)
(* (ensure_ascii), so this is also its length in bytes.                   *)

\* the characters written for the character c of a string: itself, a
\* two-character escape, \uXXXX, or a surrogate pair of two \uXXXX
EscapedLen(c) ==
    IF c \in {34, 92, 8, 9, 10, 12, 13} THEN 2
    ELSE IF c >= 32 /\ c <= 126 THEN 1
    ELSE IF c >= 65536 THEN 12
    ELSE 6

RECURSIVE EscapedLenRange(_, _, _)
\* the characters written for s[lo .. hi]
EscapedLenRange(s, lo, hi) ==
    IF lo > hi THEN 0
    ELSE IF lo = hi THEN EscapedLen(s[lo])
    ELSE EscapedLenRange(s, lo, (lo + hi) \div 2)
         + EscapedLenRange(s, ((lo + hi) \div 2) + 1, hi)

\* a string between its quotes
JsonStrLen(s) == 2 + EscapedLenRange(s, 1, Len(s))

RECURSIVE JsonItemsLen(_, _)
\* "key": "value" for every key of keys
JsonItemsLen(d, keys) ==
    IF keys = {} THEN 0
    ELSE LET k == CHOOSE x \in keys : TRUE
         IN  JsonStrLen(k) + 2 + JsonStrLen(d[k]) + JsonItemsLen(d, keys \ {k})

\* the items between braces, separated by ", "
JsonLen(d) ==
    IF DOMAIN d = {} THEN 2
    ELSE 2 + JsonItemsLen(d, DOMAIN d) + 2 * (Cardinality(DOMAIN d) - 1)

----------------------------------------------------------------------------
(* __init__ *)

\* the limit itself rejected
ConfigError_AtLimit(a) ==
    \/ a.page_size >= MaxPageSize
    \/ a.include_empty_rows.type # "bool"

\* lines 84-88: whether the constructor raises
ConfigError(a) ==
    \/ a.page_size > MaxPageSize
    \/ a.include_empty_rows.type # "bool"

----------------------------------------------------------------------------
(* execute: headers *)

\* self.metricMap.get(type, 'varchar(255)'), lines 75-82 and 120
MetricMapGet(type) ==
    CASE type = "METRIC_TYPE_UNSPECIFIED" -> "varchar(255)"
      [] type = "CURRENCY" -> "decimal(20,5)"
      [] type = "INTEGER" -> "int(11)"
      [] type = "FLOAT" -> "decimal(20,5)"
      [] type = "PERCENT" -> "decimal(20,5)"
      [] type = "TIME" -> "time"
      [] OTHER -> "varchar(255)"

\* the namespace left on the dimension names
DimensionHeaders_KeepPrefix(columnHeader) ==
    [i \in 1..Len(columnHeader.dimensions) |->
        [name |-> columnHeader.dimensions[i], type |-> "varchar(255)"]]

\* lines 113-117
DimensionHeaders(columnHeader) ==
    [i \in 1..Len(columnHeader.dimensions) |->
        [name |-> StrReplaceGa(columnHeader.dimensions[i]), type |-> "varchar(255)"]]

\* lines 118-123
MetricHeaders(columnHeader) ==
    LET entries == columnHeader.metricHeader.metricHeaderEntries
    IN  [i \in 1..Len(entries) |->
            [name |-> StrReplaceGa(entries[i].name),
             type |-> MetricMapGet(entries[i].type)]]

----------------------------------------------------------------------------
(* execute: flattening.  A loop's result is [err, ...]: err says that      *)
(* headers[index] raised IndexError, and the rest is what the loop had     *)
(* done by then.  index and row_counter count from 0 as in the code.       *)

RECURSIVE DimensionLoop_Truncates(_, _, _, _)
\* values beyond the headers dropped instead of raising
DimensionLoop_Truncates(dimensionHeaders, dimensions, index, root_data_obj) ==
    IF index = Len(dimensions) \/ index >= Len(dimensionHeaders)
    THEN [err |-> FALSE, obj |-> root_data_obj]
    ELSE DimensionLoop_Truncates(dimensionHeaders, dimensions, index + 1,
                                 DictSet(root_data_obj,
                                         StrLower(dimensionHeaders[index + 1].name),
                                         dimensions[index + 1]))

RECURSIVE DimensionLoop(_, _, _, _)
\* lines 133-135, from position index on
DimensionLoop(dimensionHeaders, dimensions, index, root_data_obj) ==
    IF index = Len(dimensions) THEN [err |-> FALSE, obj |-> root_data_obj]
    ELSE IF index >= Len(dimensionHeaders) THEN [err |-> TRUE, obj |-> root_data_obj]
    ELSE DimensionLoop(dimensionHeaders, dimensions, index + 1,
                       DictSet(root_data_obj,
                               StrLower(dimensionHeaders[index + 1].name),
                               dimensions[index + 1]))

RECURSIVE ValueLoop(_, _, _, _)
\* lines 141-143, from position index on
ValueLoop(metricHeaders, values, index, data) ==
    IF index = Len(values) THEN [err |-> FALSE, obj |-> data]
    ELSE IF index >= Len(metricHeaders) THEN [err |-> TRUE, obj |-> data]
    ELSE ValueLoop(metricHeaders, values, index + 1,
                   DictSet(data, StrLower(metricHeaders[index + 1].name), values[index + 1]))

\* a column of the same name kept instead of being overwritten
SetIds_KeepExisting(data, view_id, since) ==
    LET withView == IF K_viewid \in DOMAIN data THEN data ELSE DictSet(data, K_viewid, view_id)
    IN  IF K_timestamp \in DOMAIN withView THEN withView
        ELSE DictSet(withView, K_timestamp, since)

\* lines 145-146
SetIds(data, view_id, since) ==
    DictSet(DictSet(data, K_viewid, view_id), K_timestamp, since)

\* line 148: what follows the record's JSON text
LineEnd(row_counter, rows) == IF row_counter = Len(rows) THEN <<>> ELSE <<10>>

\* only the first group of a row flattened
RowMetrics_FirstOnly(row) == SubSeq(row.metrics, 1, IF Len(row.metrics) > 0 THEN 1 ELSE 0)

\* line 131: the groups the inner loop runs over
RowMetrics(row) == row.metrics

\* One write() call: the text json.dumps(data) + end, kept as the dict and
\* the ending, and the length of the text in bytes; row and group record
\* where the call was made (0-based row, 1-based group), they are not part
\* of the text.
Chunk(data, end, row_counter, g) ==
    [data |-> data, end |-> end, bytes |-> JsonLen(data) + Len(end),
     row |-> row_counter, group |-> g]

RECURSIVE MetricLoop(_, _, _, _, _, _, _)
\* lines 137-148 for the groups from the g-th on; writes are the write() calls
MetricLoop(a, metricHeaders, root_data_obj, metrics, g, row_counter, rows) ==
    IF g > Len(metrics) THEN [err |-> FALSE, writes |-> <<>>]
    ELSE
    LET filled == ValueLoop(metricHeaders, metrics[g].values, 0,
                            DictUpdate(EmptyDict, root_data_obj))
    IN  IF filled.err THEN [err |-> TRUE, writes |-> <<>>]
        ELSE
        LET data == SetIds(filled.obj, a.view_id, a.since)
            rest == MetricLoop(a, metricHeaders, root_data_obj, metrics, g + 1,
                               row_counter, rows)
        IN  [err |-> rest.err,
             writes |-> <<Chunk(data, LineEnd(row_counter, rows), row_counter, g)>>
                        \o rest.writes]

RECURSIVE RowLoop(_, _, _, _, _)
\* lines 128-148 for the rows from row_counter on
RowLoop(a, dimensionHeaders, metricHeaders, rows, row_counter) ==
    IF row_counter = Len(rows) THEN [err |-> FALSE, writes |-> <<>>]
    ELSE
    LET row  == rows[row_counter + 1]
        root == DimensionLoop(dimensionHeaders, row.dimensions, 0, EmptyDict)
    IN  IF root.err THEN [err |-> TRUE, writes |-> <<>>]
        ELSE
        LET here == MetricLoop(a, metricHeaders, root.obj, RowMetrics(row), 1,
                               row_counter, rows)
        IN  IF here.err THEN here
            ELSE
            LET rest == RowLoop(a, dimensionHeaders, metricHeaders, rows, row_counter + 1)
            IN  [err |-> rest.err, writes |-> here.writes \o rest.writes]

\* lines 110-148: the write() calls execute makes for the report rep, and
\* whether the loop ended in IndexError
Flatten(a, rep) ==
    RowLoop(a, DimensionHeaders(rep.columnHeader), MetricHeaders(rep.columnHeader),
            rep.data.rows, 0)

----------------------------------------------------------------------------
(* The staging file, NamedTemporaryFile("w"): a text layer over a buffered *)
(* binary file.  written: every write() call so far; pending: the calls    *)
(* whose text the text layer still holds; buffered: the calls whose bytes  *)
(* the binary buffer holds; disk: what a reader that opens the file by its *)
(* name sees; closes: how often the file was closed.                       *)

\* the text layer passes its pending text on when it holds this many bytes
ChunkSize == 8192

\* The size of the binary buffer is the block size the file system reports
\* for the temporary file, and io.DEFAULT_BUFFER_SIZE when it reports none.
BlockSizes == {4096, 8192}

NoFile ==
    [state |-> "none", buffer_size |-> 0, written |-> <<>>, pending |-> <<>>,
     buffered |-> <<>>, disk |-> <<>>, closes |-> 0]

\* line 125: NamedTemporaryFile("w")
FileOpen(f, st_blksize) == [f EXCEPT !.state = "open", !.buffer_size = st_blksize]

RECURSIVE Bytes(_)
\* the bytes of the write() calls chunks
Bytes(chunks) == IF chunks = <<>> THEN 0 ELSE Head(chunks).bytes + Bytes(Tail(chunks))

\* The text layer hands the bytes of chunks to the binary buffer: they are
\* kept when they fit in what is left of it; otherwise the buffer is written
\* to the file, and the new bytes are buffered when a buffer holds them and
\* written to the file as well when not.
BufferedWrite(f, chunks) ==
    IF Bytes(chunks) <= f.buffer_size - Bytes(f.buffered)
    THEN [f EXCEPT !.buffered = @ \o chunks]
    ELSE IF Bytes(chunks) > f.buffer_size
    THEN [f EXCEPT !.disk = @ \o f.buffered \o chunks, !.buffered = <<>>]
    ELSE [f EXCEPT !.disk = @ \o f.buffered, !.buffered = chunks]

\* the text layer's pending text handed to the binary buffer
FlushPending(f) == BufferedWrite([f EXCEPT !.pending = <<>>], f.pending)

\* line 148, ga_file.write(text): the pending text is handed on first when
\* the new text would take it over the chunk size, and the new text with it
\* when the two reach the chunk size
FileWrite(f, chunk) ==
    LET room  == IF f.pending # <<>> /\ Bytes(f.pending) + chunk.bytes > ChunkSize
                 THEN FlushPending(f) ELSE f
        added == [room EXCEPT !.written = Append(@, chunk), !.pending = Append(@, chunk)]
    IN  IF Bytes(added.pending) >= ChunkSize THEN FlushPending(added) ELSE added

RECURSIVE FileWriteAll(_, _)
\* the write() calls chunks, in order
FileWriteAll(f, chunks) ==
    IF chunks = <<>> THEN f
    ELSE FileWriteAll(FileWrite(f, Head(chunks)), Tail(chunks))

\* leaving the with block: both buffers are flushed, the file closed and deleted
FileClose(f) ==
    [f EXCEPT !.state = "closed", !.pending = <<>>, !.buffered = <<>>, !.disk = <<>>,
              !.closes = @ + 1]

----------------------------------------------------------------------------
(* Actions *)

NoReport == [columnHeader |-> ColumnHeader(<<>>, <<>>), data |-> [rows |-> <<>>],
             fetched |-> FALSE]

Fetched(rep) ==
    [columnHeader |-> rep.columnHeader, data |-> rep.data, fetched |-> TRUE]

\* the object before __init__ has set its attributes
Unset ==
    [view_id |-> <<>>, since |-> <<>>, until |-> <<>>, page_size |-> 0,
     include_empty_rows |-> [type |-> "NoneType", repr |-> "None"]]

Init ==
    /\ pc = "new"
    /\ self = Unset
    /\ raised = "none"
    /\ ga_calls = <<>>
    /\ gcs_calls = <<>>
    /\ report = NoReport
    /\ ga_file = NoFile

\* __init__, lines 45-88: the attributes are set, then validated
Construct ==
    /\ pc = "new"
    /\ \E a \in Args :
        /\ self' = a
        /\ IF ConfigError(a)
           THEN pc' = "config_error" /\ raised' = "Exception"
           ELSE pc' = "constructed" /\ raised' = raised
    /\ UNCHANGED <<ga_calls, gcs_calls, report, ga_file>>

\* execute, lines 91-108: the dates are formatted and the report requested
ExecuteFetch ==
    /\ pc = "constructed"
    /\ \E since_formatted \in FormatDate(self.since) :
       \E until_formatted \in FormatDate(self.until) :
          ga_calls' = Append(ga_calls,
                             [view_id |-> self.view_id,
                              since |-> since_formatted,
                              until |-> until_formatted,
                              page_size |-> self.page_size,
                              include_empty_rows |-> self.include_empty_rows])
    /\ pc' = "fetching"
    /\ UNCHANGED <<self, raised, gcs_calls, report, ga_file>>

\* the request made again after a failure
FetchRaise_Retry ==
    /\ pc = "fetching"
    /\ pc' = "constructed"
    /\ UNCHANGED <<self, raised, ga_calls, gcs_calls, report, ga_file>>

\* get_analytics_report raises: the error leaves execute
FetchRaise ==
    /\ pc = "fetching"
    /\ pc' = "fetch_error"
    /\ raised' = "FetchError"
    /\ UNCHANGED <<self, ga_calls, gcs_calls, report, ga_file>>

\* get_analytics_report returns, lines 110-152: the rows are written to a
\* new temporary file; an IndexError leaves the with block and execute,
\* otherwise upload is called with the file's name
FetchReturn ==
    /\ pc = "fetching"
    /\ \E rep \in ReportsFor(self) :
       \E st_blksize \in BlockSizes :
        LET flat   == Flatten(self, rep)
            staged == FileWriteAll(FileOpen(ga_file, st_blksize), flat.writes)
        IN  /\ report' = Fetched(rep)
            /\ IF flat.err
               THEN /\ ga_file' = FileClose(staged)
                    /\ pc' = "flatten_error"
                    /\ raised' = "IndexError"
                    /\ gcs_calls' = gcs_calls
               ELSE /\ ga_file' = staged
                    /\ pc' = "uploading"
                    /\ raised' = raised
                    /\ gcs_calls' = Append(gcs_calls,
                                           [content |-> staged.disk,
                                            written |-> staged.written])
    /\ UNCHANGED <<self, ga_calls>>

\* upload returns: the with block and execute end
UploadReturn ==
    /\ pc = "uploading"
    /\ ga_file' = FileClose(ga_file)
    /\ pc' = "done"
    /\ UNCHANGED <<self, raised, ga_calls, gcs_calls, report>>

\* the staging file left open when upload raises
UploadRaise_KeepsFile ==
    /\ pc = "uploading"
    /\ pc' = "upload_error"
    /\ raised' = "UploadError"
    /\ UNCHANGED <<self, ga_calls, gcs_calls, report, ga_file>>

\* upload raises: the with block is left and the error leaves execute
UploadRaise ==
    /\ pc = "uploading"
    /\ ga_file' = FileClose(ga_file)
    /\ pc' = "upload_error"
    /\ raised' = "UploadError"
    /\ UNCHANGED <<self, ga_calls, gcs_calls, report>>

Next ==
    \/ Construct
    \/ ExecuteFetch
    \/ FetchRaise
    \/ FetchReturn
    \/ UploadReturn
    \/ UploadRaise

Spec == Init /\ [][Next]_vars

----------------------------------------------------------------------------
(* Vocabulary of the properties *)

\* the flattening loop ran to its end and upload was called
Flattened == pc \in {"uploading", "done", "upload_error"}

Rows == report.data.rows

Written == ga_file.written

\* the output key of a header name
Key(name) == StrLower(StrReplaceGa(name))

DimensionNamesOf(rep) == rep.columnHeader.dimensions

MetricNamesOf(rep) ==
    [j \in 1..Len(rep.columnHeader.metricHeader.metricHeaderEntries) |->
        rep.columnHeader.metricHeader.metricHeaderEntries[j].name]

RECURSIVE PairsFrom(_, _)
\* <<row, group>> for every group of the rows from the r-th on, rows counted
\* from 0 and groups from 1, in row order and then group order
PairsFrom(rows, r) ==
    IF r > Len(rows) THEN <<>>
    ELSE [g \in 1..Len(rows[r].metrics) |-> <<r - 1, g>>] \o PairsFrom(rows, r + 1)

PairsOf(chunks) == [k \in 1..Len(chunks) |-> <<chunks[k].row, chunks[k].group>>]

\* row r (from 1) carries more values than there are headers
RowOverflows(rep, r) ==
    \/ Len(rep.data.rows[r].dimensions) > Len(DimensionNamesOf(rep))
    \/ \E g \in 1..Len(rep.data.rows[r].metrics) :
          Len(rep.data.rows[r].metrics[g].values) > Len(MetricNamesOf(rep))

Overflows(rep) == \E r \in 1..Len(rep.data.rows) : RowOverflows(rep, r)

FirstOverflow(rep) ==
    CHOOSE r \in 1..Len(rep.data.rows) :
        RowOverflows(rep, r) /\ \A q \in 1..(r - 1) : ~RowOverflows(rep, q)

\* 'YYYY-MM-DD HH:MM:SS', digit for digit
StrictDateTime(s) ==
    /\ Len(s) = 19
    /\ \A i \in 1..19 :
          IF i \in {5, 8} THEN s[i] = 45
          ELSE IF i = 11 THEN s[i] = 32
          ELSE IF i \in {14, 17} THEN s[i] = 58
          ELSE InClass(s[i], 0, 9)

\* a strict value that names a real date and time
ValidDateTime(s) ==
    /\ StrictDateTime(s)
    /\ IntOf(SubSeq(s, 1, 4)) >= 1
    /\ IntOf(SubSeq(s, 6, 7)) \in 1..12
    /\ IntOf(SubSeq(s, 9, 10)) >= 1
    /\ IntOf(SubSeq(s, 9, 10)) <= DaysInMonth(IntOf(SubSeq(s, 1, 4)), IntOf(SubSeq(s, 6, 7)))
    /\ IntOf(SubSeq(s, 12, 13)) <= 23
    /\ IntOf(SubSeq(s, 15, 16)) <= 59
    /\ IntOf(SubSeq(s, 18, 19)) <= 59

DatePart(s) == SubSeq(s, 1, 10)

\* what the claim says is sent for the configured date s
SentAsClaimed(sent, s) ==
    /\ ValidDateTime(s) => sent = DatePart(s)
    /\ ~Strptime(s).ok => sent = s

----------------------------------------------------------------------------
(* C1 *)

\* C1: construction raises exactly when page_size > 10000 or
\* include_empty_rows is not a bool, and then neither the analytics client
\* nor the object-store client is ever called.
C1_ConstructionValidates ==
    pc # "new" =>
        /\ (pc = "config_error") <=>
              (\/ self.page_size > MaxPageSize
               \/ self.include_empty_rows \notin {PyBool(TRUE), PyBool(FALSE)})
        /\ pc = "config_error" =>
              /\ raised = "Exception"
              /\ ga_calls = <<>>
              /\ gcs_calls = <<>>
              /\ ga_file = NoFile

\* a page size within the limit rejected for a non-boolean flag
C1_Witness ==
    /\ pc = "config_error"
    /\ self.page_size = MaxPageSize
    /\ self.include_empty_rows.type = "int"

----------------------------------------------------------------------------
(* C2 *)

\* C2: the start and end dates sent to the analytics client are each the
\* date part of a configured 'YYYY-MM-DD HH:MM:SS' value and the configured
\* value itself when it does not parse; formatting never raises and the
\* fetch call is always made.
C2_DatesNormalized ==
    /\ pc \notin {"new", "config_error", "constructed"} => Len(ga_calls) = 1
    /\ pc = "fetching" => raised = "none"
    /\ \A c \in 1..Len(ga_calls) :
          /\ SentAsClaimed(ga_calls[c].since, self.since)
          /\ SentAsClaimed(ga_calls[c].until, self.until)

----------------------------------------------------------------------------
(* C3 *)

\* the values of the group the k-th record was written for
ValuesOf(k) == Rows[Written[k].row + 1].metrics[Written[k].group].values

\* the k-th record holds a metric value under key
MetricWrites(k, key) ==
    \E j \in 1..Len(ValuesOf(k)) : Key(MetricNamesOf(report)[j]) = key

\* C3 as stated: after flattening, the records are exactly one per (row,
\* group) pair, in row order and then group order, so their number is the
\* sum of the rows' group counts, and the records of one row agree on every
\* dimension key of that row.
C3_OneRecordPerRowAndGroup ==
    Flattened =>
        /\ PairsOf(Written) = PairsFrom(Rows, 1)
        /\ \A k1, k2 \in 1..Len(Written) :
              Written[k1].row = Written[k2].row =>
                 \A i \in 1..Len(Rows[Written[k1].row + 1].dimensions) :
                    LET key == Key(DimensionNamesOf(report)[i])
                    IN  /\ key \in DOMAIN Written[k1].data
                        /\ key \in DOMAIN Written[k2].data
                        /\ Written[k1].data[key] = Written[k2].data[key]

\* C3 as amended: the same, except that the records of one row need not
\* agree on a dimension key under which one of them holds a metric value;
\* every record of the row still has every dimension key of the row.
C3_OneRecordPerRowAndGroupUnlessMetricKey ==
    Flattened =>
        /\ PairsOf(Written) = PairsFrom(Rows, 1)
        /\ \A k1, k2 \in 1..Len(Written) :
              Written[k1].row = Written[k2].row =>
                 \A i \in 1..Len(Rows[Written[k1].row + 1].dimensions) :
                    LET key == Key(DimensionNamesOf(report)[i])
                    IN  /\ key \in DOMAIN Written[k1].data
                        /\ key \in DOMAIN Written[k2].data
                        /\ \/ MetricWrites(k1, key)
                           \/ MetricWrites(k2, key)
                           \/ Written[k1].data[key] = Written[k2].data[key]

\* two rows, the first with no group and the second with two
C3_Witness ==
    /\ Flattened
    /\ Len(Rows) = 2
    /\ Len(Rows[1].metrics) = 0
    /\ Len(Rows[2].metrics) = 2
    /\ Len(Rows[2].dimensions) = 2
    /\ Len(Written) = 2

----------------------------------------------------------------------------
(* C4 *)

\* C4: every record written holds viewid = the configured view id and
\* timestamp = the configured start date, not the date sent to the client.
C4_ViewIdAndTimestamp ==
    \A k \in 1..Len(Written) :
        /\ K_viewid \in DOMAIN Written[k].data
        /\ K_timestamp \in DOMAIN Written[k].data
        /\ Written[k].data[K_viewid] = self.view_id
        /\ Written[k].data[K_timestamp] = self.since

\* a record of a row with a value under the dimension ga:viewId and one
\* under the metric ga:timestamp, the start date configured with a time
C4_Witness ==
    /\ Len(Written) > 0
    /\ self.since = S_DateTime
    /\ ga_calls[1].since = S_DateOnly
    /\ DimensionNamesOf(report) = <<N_viewId>>
    /\ MetricNamesOf(report) = <<N_timestamp>>
    /\ Len(Rows[1].dimensions) = 1
    /\ Len(Rows[1].metrics[1].values) = 1

----------------------------------------------------------------------------
(* C5 *)

\* C5: in the staged output the last record has no newline after it and
\* every other record is followed by one.
C5_LastRecordWithoutNewline ==
    (Flattened /\ Len(Written) > 0) =>
        /\ Written[Len(Written)].end = <<>>
        /\ \A k \in 1..(Len(Written) - 1) : Written[k].end = <<10>>

----------------------------------------------------------------------------
(* C6 *)

\* C6: the staging file is closed exactly once on every way out of execute
\* that follows its creation, is open for as long as upload runs, and is
\* never held when execute has ended.
C6_StagingFileReleasedOnce ==
    /\ ga_file.closes <= 1
    /\ pc = "uploading" => (ga_file.state = "open" /\ ga_file.closes = 0)
    /\ pc \in {"done", "upload_error", "flatten_error"} =>
          (ga_file.state = "closed" /\ ga_file.closes = 1)
    /\ pc \in {"new", "config_error", "constructed", "fetching", "fetch_error"} =>
          ga_file = NoFile

\* upload raised after records were written
C6_Witness ==
    /\ pc = "upload_error"
    /\ Len(Written) > 0
    /\ ga_file.closes = 1

----------------------------------------------------------------------------
(* C7 *)

\* C7: each client is called at most once; upload is called only after the
\* fetch returned and every record was written; a failed fetch leaves
\* execute with no staging file and no upload, a failed upload leaves it
\* after its single call.
C7_FetchThenFlattenThenUpload ==
    /\ Len(ga_calls) <= 1
    /\ Len(gcs_calls) <= 1
    /\ ga_file.state # "none" => (report.fetched /\ Len(ga_calls) = 1)
    /\ Len(gcs_calls) = 1 =>
          /\ report.fetched
          /\ PairsOf(gcs_calls[1].written) = PairsFrom(Rows, 1)
          /\ Written = gcs_calls[1].written
    /\ pc = "fetch_error" =>
          /\ raised = "FetchError"
          /\ ~report.fetched
          /\ ga_file = NoFile
          /\ gcs_calls = <<>>
    /\ pc = "upload_error" => (raised = "UploadError" /\ Len(gcs_calls) = 1)

\* upload raised for a report of several records
C7_Witness ==
    /\ pc = "upload_error"
    /\ Len(ga_calls) = 1
    /\ Len(gcs_calls) = 1
    /\ Len(Written) >= 2

----------------------------------------------------------------------------
(* C8 *)

\* position i of the dimensions is written again later in the same record
DimensionOverwritten(rep, nDims, nVals, i) ==
    \/ \E q \in (i + 1)..nDims : Key(DimensionNamesOf(rep)[q]) = Key(DimensionNamesOf(rep)[i])
    \/ \E j \in 1..nVals : Key(MetricNamesOf(rep)[j]) = Key(DimensionNamesOf(rep)[i])
    \/ Key(DimensionNamesOf(rep)[i]) \in {K_viewid, K_timestamp}

\* position j of the group's values is written again later in the same record
MetricOverwritten(rep, nVals, j) ==
    \/ \E q \in (j + 1)..nVals : Key(MetricNamesOf(rep)[q]) = Key(MetricNamesOf(rep)[j])
    \/ Key(MetricNamesOf(rep)[j]) \in {K_viewid, K_timestamp}

\* the keys a record of nDims dimension values and nVals metric values holds
KeysOf(rep, nDims, nVals) ==
    {Key(DimensionNamesOf(rep)[i]) : i \in 1..nDims}
    \cup {Key(MetricNamesOf(rep)[j]) : j \in 1..nVals}
    \cup {K_viewid, K_timestamp}

\* the value the last write under key leaves in a record of the dimension
\* values dims and the metric values vals: timestamp and viewid are written
\* last, the metric values after the dimension values, each list in order
LastWritten(rep, dims, vals, key) ==
    IF key = K_timestamp THEN self.since
    ELSE IF key = K_viewid THEN self.view_id
    ELSE IF \E j \in 1..Len(vals) : Key(MetricNamesOf(rep)[j]) = key
    THEN vals[CHOOSE j \in 1..Len(vals) :
                 /\ Key(MetricNamesOf(rep)[j]) = key
                 /\ \A q \in (j + 1)..Len(vals) : Key(MetricNamesOf(rep)[q]) # key]
    ELSE dims[CHOOSE i \in 1..Len(dims) :
                 /\ Key(DimensionNamesOf(rep)[i]) = key
                 /\ \A q \in (i + 1)..Len(dims) : Key(DimensionNamesOf(rep)[q]) # key]

\* C8 as stated: every record maps the key of each header position present
\* in the row to the value at that position, headers beyond the row's
\* values give no key, and a row with no more values than headers raises
\* nothing.
C8_EveryPositionMapped ==
    /\ (report.fetched /\ ~Overflows(report)) => Flattened
    /\ \A k \in 1..Len(Written) :
          LET dims == Rows[Written[k].row + 1].dimensions
              vals == Rows[Written[k].row + 1].metrics[Written[k].group].values
          IN  /\ DOMAIN Written[k].data = KeysOf(report, Len(dims), Len(vals))
              /\ \A i \in 1..Len(dims) :
                    Written[k].data[Key(DimensionNamesOf(report)[i])] = dims[i]
              /\ \A j \in 1..Len(vals) :
                    Written[k].data[Key(MetricNamesOf(report)[j])] = vals[j]

\* C8 as amended: the same, except that a position whose key is written
\* again later in the record (by a later position of the same list, by a
\* metric for a dimension, or by viewid / timestamp) need not keep its
\* value: every key holds the value written under it last.
C8_PositionsMappedLastWriteWins ==
    /\ (report.fetched /\ ~Overflows(report)) => Flattened
    /\ \A k \in 1..Len(Written) :
          LET dims == Rows[Written[k].row + 1].dimensions
              vals == Rows[Written[k].row + 1].metrics[Written[k].group].values
          IN  /\ DOMAIN Written[k].data = KeysOf(report, Len(dims), Len(vals))
              /\ \A i \in 1..Len(dims) :
                    \/ DimensionOverwritten(report, Len(dims), Len(vals), i)
                    \/ Written[k].data[Key(DimensionNamesOf(report)[i])] = dims[i]
              /\ \A j \in 1..Len(vals) :
                    \/ MetricOverwritten(report, Len(vals), j)
                    \/ Written[k].data[Key(MetricNamesOf(report)[j])] = vals[j]
              /\ \A key \in DOMAIN Written[k].data :
                    Written[k].data[key] = LastWritten(report, dims, vals, key)

\* a row with one value under the headers ga:country, ga:pagePath and one
\* under ga:sessions, ga:bounceRate: country and sessions only
C8_Witness ==
    /\ Flattened
    /\ DimensionNamesOf(report) = <<N_country, N_pagePath>>
    /\ MetricNamesOf(report) = <<N_sessions, N_bounceRate>>
    /\ \E k \in 1..Len(Written) :
          /\ DOMAIN Written[k].data = {K_country, K_sessions, K_viewid, K_timestamp}
          /\ Written[k].data[K_country] = Rows[Written[k].row + 1].dimensions[1]
          /\ Written[k].data[K_sessions] =
                Rows[Written[k].row + 1].metrics[Written[k].group].values[1]

----------------------------------------------------------------------------
(* C9 *)

\* C9: when upload is called, the named file holds every record written.
C9_UploadSeesEveryRecord ==
    \A c \in 1..Len(gcs_calls) : gcs_calls[c].content = gcs_calls[c].written

----------------------------------------------------------------------------
(* C10 *)

\* C10: a report with a row that carries more values than headers fails with
\* IndexError in the first such row: upload is not called, the staging file
\* is closed, and the records of all earlier rows were written before.
C10_OverflowFailsWithoutUpload ==
    (report.fetched /\ Overflows(report)) =>
        /\ pc = "flatten_error"
        /\ raised = "IndexError"
        /\ gcs_calls = <<>>
        /\ ga_file.state = "closed"
        /\ ga_file.closes = 1
        /\ LET before == PairsFrom(SubSeq(Rows, 1, FirstOverflow(report) - 1), 1)
           IN  /\ Len(Written) >= Len(before)
               /\ SubSeq(PairsOf(Written), 1, Len(before)) = before
               /\ \A k \in (Len(before) + 1)..Len(Written) :
                     Written[k].row = FirstOverflow(report) - 1

\* the second row has one dimension value too many, after a first row whose
\* record was written
C10_Witness ==
    /\ pc = "flatten_error"
    /\ Len(Rows) = 2
    /\ Len(Rows[2].dimensions) > Len(DimensionNamesOf(report))
    /\ Len(Written) = 1
    /\ gcs_calls = <<>>
    /\ ga_file.state = "closed"

====
